---- MODULE Spec2Model ----
(***************************************************************************)
(* Model of src/app.py: the link shortener's urls table and the HTTP       *)
(* handlers that read and write it (shorten_url, serve_ad_page_1,          *)
(* serve_ad_page_2_content, get_final_link, get_user_stats).               *)
(*                                                                         *)
(* Each request opens its own sqlite3 connection (get_db_connection), so   *)
(* requests served by different workers interleave between SQL statements. *)
(* A handler is therefore modelled as one step per statement that touches  *)
(* the database; the code between two statements only touches locals and   *)
(* is folded into the step before it.  SQLite serialises writers: a write  *)
(* statement opens the connection's transaction and holds the database's   *)
(* write lock until commit; other connections read the committed table.    *)
(* A writer that finds the lock taken waits (the busy handler); the busy   *)
(* timeout and other storage failures are not modelled.                    *)
(*                                                                         *)
(* The users table, register_user_data and login_user_data are not         *)
(* modelled (the urls table's foreign key is not enforced by SQLite's      *)
(* defaults, so no handler below reads users).  The created_at column is   *)
(* left out: it only orders the links list of get_user_stats, which is     *)
(* modelled as a set.                                                      *)
(***************************************************************************)
EXTENDS Integers, Sequences, FiniteSets

\* ---- bounds and inputs ----
MaxReq == 3
Req == 1..MaxReq

\* values generate_slug can return and slugs a client can ask for
Slugs == {"a", "b", "c", "d"}
Urls == {"https://example.com", "https://x.com"}
Uids == {"u1", "u2"}

NULL == "NULL"

\* cpm = 4.00 units per 1000 views
cpm == 4

VARIABLES urls, writer, txn, req
vars == <<urls, writer, txn, req>>

\* ---- the urls table (CREATE TABLE urls); a row's id is its index ----
Row(s, u, o, v) == [slug |-> s, original_url |-> u, user_uid |-> o, views |-> v]

\* an earlier run's table, found in DB_FILE at startup
InitUrls == << Row("a", "https://example.com", "u1", 7),
               Row("b", "https://x.com", "u2", 2500) >>

RowIds(t) == 1..Len(t)

\* SELECT ... FROM urls WHERE slug = ?  (the ids of the rows that match)
WhereSlug(t, s) == {i \in RowIds(t) : t[i].slug = s}

\* SELECT ... FROM urls WHERE original_url = ? AND user_uid = ?
WhereUrlAndUser(t, u, o) ==
    {i \in RowIds(t) : t[i].original_url = u /\ t[i].user_uid = o}

\* SELECT ... FROM urls WHERE user_uid = ?
WhereUser(t, o) == {i \in RowIds(t) : t[i].user_uid = o}

Min(S) == CHOOSE x \in S : \A y \in S : x <= y

\* cursor.fetchone(): the first matching row in rowid order, or None
FetchOne(ids) == IF ids = {} THEN 0 ELSE Min(ids)

\* INSERT INTO urls (slug, original_url, user_uid, views, created_at)
\* VALUES (?, ?, ?, 0, ?): slug is UNIQUE, so a second row with a stored slug
\* raises sqlite3.IntegrityError and the statement inserts nothing
InsertNoUnique(t, s, u, o) ==
    [IntegrityError |-> FALSE, table |-> Append(t, Row(s, u, o, 0))]

InsertOrReplace(t, s, u, o) ==
    [IntegrityError |-> FALSE,
     table |-> Append(SelectSeq(t, LAMBDA row : row.slug # s), Row(s, u, o, 0))]

Insert(t, s, u, o) ==
    IF WhereSlug(t, s) # {}
    THEN [IntegrityError |-> TRUE, table |-> t]
    ELSE [IntegrityError |-> FALSE, table |-> Append(t, Row(s, u, o, 0))]

\* UPDATE urls SET views = views + 1 WHERE slug = ?
IncrementAllViews(t, s) == [i \in RowIds(t) |-> [t[i] EXCEPT !.views = @ + 1]]

IncrementViews(t, s) ==
    [i \in RowIds(t) |-> IF t[i].slug = s THEN [t[i] EXCEPT !.views = @ + 1] ELSE t[i]]

\* SELECT SUM(views) AS total_views FROM urls WHERE user_uid = ?
\* (the result column as a set: empty for SQL NULL, the sum over no rows)
RECURSIVE SumOver(_, _)
SumOver(t, ids) ==
    IF ids = {} THEN 0
    ELSE LET i == Min(ids) IN t[i].views + SumOver(t, ids \ {i})

SumViews(t, o) == IF WhereUser(t, o) = {} THEN {} ELSE {SumOver(t, WhereUser(t, o))}

\* total_views = cursor.fetchone()['total_views'] or 0
OrZero(x) == IF x = {} THEN 0 ELSE CHOOSE n \in x : TRUE

\* total_earnings = (total_views / 1000) * cpm, kept here in thousandths of a
\* unit: the quotient by 1000 is not an integer, the product by 1000 is
EarningsMilli(total_views) == total_views * cpm

\* round(total_earnings, 2), in hundredths of a unit.  Python rounds the
\* float to the nearest value with two decimals, a tie going to the even
\* neighbour.
Truncate2(milli) == milli \div 10

Round2(milli) ==
    LET q == milli \div 10
        rem == milli % 10
    IN  IF rem > 5 \/ (rem = 5 /\ q % 2 = 1) THEN q + 1 ELSE q

\* ---- requests: one slot per HTTP request, with the handler's locals ----
NoRows == {}

Idle == [kind |-> "none", pc |-> "idle", slug |-> NULL, url |-> NULL, uid |-> NULL,
         result |-> NULL, status |-> 0, success |-> FALSE, message |-> NULL,
         out_slug |-> NULL, location |-> NULL, content |-> <<>>,
         total_views |-> 0, total_earnings |-> 0, links |-> NoRows]

Init ==
    /\ urls = InitUrls
    /\ writer = 0
    /\ txn = <<>>
    /\ req = [r \in Req |-> Idle]

\* slot r takes the next request: slots are used in order
Free(r) == req[r].pc = "idle" /\ \A q \in Req : q < r => req[q].pc # "idle"

\* ---- POST /shorten_url ----
\* SELECT slug ... WHERE original_url = ? AND user_uid = ?; fetchone();
\* an existing row's slug is returned at once
shorten_url_select(r) ==
    /\ Free(r)
    /\ \E u \in Urls, o \in Uids :
         LET existing == FetchOne(WhereUrlAndUser(urls, u, o)) IN
         req' = [req EXCEPT ![r] =
                   IF existing # 0
                   THEN [Idle EXCEPT !.kind = "shorten", !.url = u, !.uid = o,
                           !.result = urls[existing].slug,
                           !.pc = "done", !.status = 200, !.success = TRUE,
                           !.out_slug = urls[existing].slug,
                           !.message = "URL already shortened."]
                   ELSE [Idle EXCEPT !.kind = "shorten", !.url = u, !.uid = o,
                           !.pc = "shorten_insert"]]
    /\ UNCHANGED <<urls, writer, txn>>

\* slug = generate_slug(); INSERT.  The INSERT opens the write transaction.
\* An IntegrityError is caught by the handler's except clause: 500, and the
\* connection is dropped with its transaction rolled back.
shorten_url_insert(r) ==
    /\ req[r].pc = "shorten_insert"
    /\ writer = 0
    /\ \E s \in Slugs :
         LET ins == Insert(urls, s, req[r].url, req[r].uid) IN
         IF ins.IntegrityError
         THEN /\ req' = [req EXCEPT ![r].slug = s, ![r].pc = "done",
                           ![r].status = 500, ![r].success = FALSE,
                           ![r].message = "URL shortening failed."]
              /\ UNCHANGED <<writer, txn>>
         ELSE /\ req' = [req EXCEPT ![r].slug = s, ![r].pc = "shorten_commit"]
              /\ writer' = r
              /\ txn' = ins.table
    /\ UNCHANGED urls

\* conn.commit(); conn.close(); return {"success": True, "slug": slug}
shorten_url_commit(r) ==
    /\ req[r].pc = "shorten_commit"
    /\ writer = r
    /\ urls' = txn
    /\ writer' = 0
    /\ txn' = <<>>
    /\ req' = [req EXCEPT ![r].pc = "done", ![r].status = 200, ![r].success = TRUE,
                 ![r].out_slug = req[r].slug]

\* ---- GET /{slug} ----
\* SELECT original_url ... WHERE slug = ?; 404 when no row, else the first
\* interstitial, whose script embeds the slug
serve_ad_page_1_unchecked(r) ==
    /\ Free(r)
    /\ \E s \in Slugs :
         req' = [req EXCEPT ![r] =
                   [Idle EXCEPT !.kind = "enter", !.slug = s, !.pc = "done",
                      !.status = 200, !.content = <<"ad_page_1", s>>]]
    /\ UNCHANGED <<urls, writer, txn>>

serve_ad_page_1(r) ==
    /\ Free(r)
    /\ \E s \in Slugs :
         LET row == FetchOne(WhereSlug(urls, s)) IN
         req' = [req EXCEPT ![r] =
                   IF row = 0
                   THEN [Idle EXCEPT !.kind = "enter", !.slug = s, !.pc = "done",
                           !.status = 404, !.message = "Slug not found."]
                   ELSE [Idle EXCEPT !.kind = "enter", !.slug = s, !.pc = "done",
                           !.result = urls[row].original_url,
                           !.status = 200, !.content = <<"ad_page_1", s>>]]
    /\ UNCHANGED <<urls, writer, txn>>

\* ---- GET /ad_page2_content/{slug} ----
\* renders the second interstitial from the slug alone; opens no connection
serve_ad_page_2_content_validated(r) ==
    /\ Free(r)
    /\ \E s \in Slugs :
         req' = [req EXCEPT ![r] =
                   IF WhereSlug(urls, s) = {}
                   THEN [Idle EXCEPT !.kind = "advance", !.slug = s, !.pc = "done",
                           !.status = 404, !.message = "Slug not found."]
                   ELSE [Idle EXCEPT !.kind = "advance", !.slug = s, !.pc = "done",
                           !.status = 200, !.content = <<"ad_page_2", s>>]]
    /\ UNCHANGED <<urls, writer, txn>>

serve_ad_page_2_content(r) ==
    /\ Free(r)
    /\ \E s \in Slugs :
         req' = [req EXCEPT ![r] =
                   [Idle EXCEPT !.kind = "advance", !.slug = s, !.pc = "done",
                      !.status = 200, !.content = <<"ad_page_2", s>>]]
    /\ UNCHANGED <<urls, writer, txn>>

\* ---- GET /go_to_original/{slug} ----
\* SELECT original_url ... WHERE slug = ?; fetchone(); 404 when no row
EnterServed(s) ==
    \E q \in Req : req[q].kind = "enter" /\ req[q].slug = s /\ req[q].status = 200

get_final_link_select_staged(r) ==
    /\ Free(r)
    /\ \E s \in Slugs :
         LET row == FetchOne(WhereSlug(urls, s)) IN
         req' = [req EXCEPT ![r] =
                   IF row = 0 \/ ~EnterServed(s)
                   THEN [Idle EXCEPT !.kind = "resolve", !.slug = s, !.pc = "done",
                           !.status = 404, !.message = "Original URL not found."]
                   ELSE [Idle EXCEPT !.kind = "resolve", !.slug = s,
                           !.result = urls[row].original_url,
                           !.pc = "resolve_update"]]
    /\ UNCHANGED <<urls, writer, txn>>

get_final_link_select_unchecked(r) ==
    /\ Free(r)
    /\ \E s \in Slugs :
         LET row == FetchOne(WhereSlug(urls, s)) IN
         req' = [req EXCEPT ![r] =
                   [Idle EXCEPT !.kind = "resolve", !.slug = s,
                      !.result = IF row = 0 THEN NULL ELSE urls[row].original_url,
                      !.pc = "resolve_update"]]
    /\ UNCHANGED <<urls, writer, txn>>

get_final_link_select(r) ==
    /\ Free(r)
    /\ \E s \in Slugs :
         LET row == FetchOne(WhereSlug(urls, s)) IN
         req' = [req EXCEPT ![r] =
                   IF row = 0
                   THEN [Idle EXCEPT !.kind = "resolve", !.slug = s, !.pc = "done",
                           !.status = 404, !.message = "Original URL not found."]
                   ELSE [Idle EXCEPT !.kind = "resolve", !.slug = s,
                           !.result = urls[row].original_url,
                           !.pc = "resolve_update"]]
    /\ UNCHANGED <<urls, writer, txn>>

\* UPDATE urls SET views = views + 1 WHERE slug = ?  (opens the write
\* transaction; the statement reads and writes the row under the write lock)
get_final_link_update(r) ==
    /\ req[r].pc = "resolve_update"
    /\ writer = 0
    /\ writer' = r
    /\ txn' = IncrementViews(urls, req[r].slug)
    /\ req' = [req EXCEPT ![r].pc = "resolve_commit"]
    /\ UNCHANGED urls

\* conn.commit(); conn.close()
get_final_link_close_uncommitted(r) ==
    /\ req[r].pc = "resolve_commit"
    /\ writer = r
    /\ writer' = 0
    /\ txn' = <<>>
    /\ req' = [req EXCEPT ![r].pc = "resolve_return"]
    /\ UNCHANGED urls

get_final_link_commit(r) ==
    /\ req[r].pc = "resolve_commit"
    /\ writer = r
    /\ urls' = txn
    /\ writer' = 0
    /\ txn' = <<>>
    /\ req' = [req EXCEPT ![r].pc = "resolve_return"]

\* return RedirectResponse(url=original_url, status_code=302)
get_final_link_return(r) ==
    /\ req[r].pc = "resolve_return"
    /\ req' = [req EXCEPT ![r].pc = "done", ![r].status = 302,
                 ![r].location = req[r].result]
    /\ UNCHANGED <<urls, writer, txn>>

\* ---- GET /api/user_stats ----
\* SELECT SUM(views) ...; total_views = ... or 0; total_earnings
get_user_stats_sum(r) ==
    /\ Free(r)
    /\ \E o \in Uids :
         LET total_views == OrZero(SumViews(urls, o)) IN
         req' = [req EXCEPT ![r] =
                   [Idle EXCEPT !.kind = "stats", !.uid = o, !.pc = "stats_links",
                      !.total_views = total_views,
                      !.total_earnings = EarningsMilli(total_views)]]
    /\ UNCHANGED <<urls, writer, txn>>

\* SELECT slug, original_url, views, created_at ... WHERE user_uid = ?;
\* return UserStats(total_views, round(total_earnings, 2), links)
get_user_stats_links(r) ==
    /\ req[r].pc = "stats_links"
    /\ req' = [req EXCEPT ![r].pc = "done", ![r].status = 200,
                 ![r].total_earnings = Round2(req[r].total_earnings),
                 ![r].links = {urls[i] : i \in WhereUser(urls, req[r].uid)}]
    /\ UNCHANGED <<urls, writer, txn>>

Next ==
    \E r \in Req :
        \/ shorten_url_select(r)
        \/ shorten_url_insert(r)
        \/ shorten_url_commit(r)
        \/ serve_ad_page_1(r)
        \/ serve_ad_page_2_content(r)
        \/ get_final_link_select(r)
        \/ get_final_link_update(r)
        \/ get_final_link_commit(r)
        \/ get_final_link_return(r)
        \/ get_user_stats_sum(r)
        \/ get_user_stats_links(r)

Spec == Init /\ [][Next]_vars

\* ======================= properties =======================
Stored(t, s) == \E i \in RowIds(t) : t[i].slug = s
RowOf(t, s) == t[CHOOSE i \in RowIds(t) : t[i].slug = s]
ViewsOf(t, s) == RowOf(t, s).views
UrlOf(t, s) == RowOf(t, s).original_url

\* views a slug had when the server started (0 for a link created later)
BaseViews(s) == IF Stored(InitUrls, s) THEN ViewsOf(InitUrls, s) ELSE 0

\* the step in which slot r receives a request of kind k
Starts(r, k) == req[r].pc = "idle" /\ req'[r].kind = k
\* the step that takes slot r from pc p to pc q
Moves(r, p, q) == req[r].pc = p /\ req'[r].pc = q

\* Resolve requests on slug s whose increment is committed
Counted(s) ==
    {r \in Req : /\ req[r].kind = "resolve"
                 /\ req[r].slug = s
                 /\ (req[r].pc = "resolve_return" \/ req[r].status = 302)}

Visited(s) ==
    \E q \in Req : req[q].kind \in {"enter", "advance"} /\ req[q].slug = s

\* C1: in every state, every stored slug's views equal the views it started
\* with plus the number of Resolve requests on that slug that have committed
\* (and so succeed); Enter, Advance and Resolves of other slugs add nothing,
\* and no concurrent increment is lost.
C1_ViewsEqualResolves ==
    \A i \in RowIds(urls) :
        urls[i].views = BaseViews(urls[i].slug) + Cardinality(Counted(urls[i].slug))

\* three Resolves of "a" overlapping in time, next to an Enter-free history:
\* one returned, one committed and not yet returned, one holding the write lock
C1_Witness ==
    \E r1, r2, r3 \in Req :
        /\ req[r1].kind = "resolve" /\ req[r1].slug = "a" /\ req[r1].status = 302
        /\ req[r2].kind = "resolve" /\ req[r2].slug = "a" /\ req[r2].pc = "resolve_return"
        /\ req[r3].kind = "resolve" /\ req[r3].slug = "a" /\ req[r3].pc = "resolve_commit"
        /\ writer = r3
        /\ ViewsOf(urls, "a") = 9

\* C2: a Resolve of a stored slug goes on to the UPDATE; its commit raises the
\* slug's views by exactly one; no other step of it changes the table; and the
\* 302 it then returns, after the commit, points at the stored original_url.
C2_ResolveRedirectsAndCounts ==
    [][\A r \in Req :
         /\ (Starts(r, "resolve") /\ Stored(urls, req'[r].slug))
              => Moves(r, "idle", "resolve_update") /\ urls' = urls
         /\ Moves(r, "resolve_update", "resolve_commit") => urls' = urls
         /\ req[r].pc = "resolve_commit" /\ req'[r].pc # "resolve_commit"
              => /\ req'[r].pc = "resolve_return"
                 /\ req'[r].status = 0
                 /\ ViewsOf(urls', req[r].slug) = ViewsOf(urls, req[r].slug) + 1
         /\ req[r].pc = "resolve_return" /\ req'[r].pc # "resolve_return"
              => /\ req'[r].pc = "done"
                 /\ req'[r].status = 302
                 /\ req'[r].location = UrlOf(urls, req[r].slug)
                 /\ urls' = urls
      ]_vars

\* the only request is a Resolve of "a": redirected to its URL, views 7 -> 8
C2_Witness ==
    /\ req[1].kind = "resolve" /\ req[1].slug = "a"
    /\ req[1].status = 302 /\ req[1].location = "https://example.com"
    /\ \A r \in Req \ {1} : req[r].pc = "idle"
    /\ ViewsOf(urls, "a") = 8

\* C3: a Resolve of a slug that is not stored ends at once with 404, and the
\* step leaves the table, the write lock and the pending transaction unchanged.
C3_ResolveUnknownIsNotFound ==
    [][\A r \in Req :
         (Starts(r, "resolve") /\ ~Stored(urls, req'[r].slug))
            => /\ req'[r].pc = "done"
               /\ req'[r].status = 404
               /\ req'[r].location = NULL
               /\ urls' = urls /\ writer' = writer /\ txn' = txn
      ]_vars

C3_Witness ==
    \E r \in Req :
        /\ req[r].kind = "resolve" /\ req[r].status = 404
        /\ ~Stored(urls, req[r].slug)
        /\ urls = InitUrls

\* C4: a shorten request answered "URL already shortened." returns the slug of
\* a stored link for its (url, owner) pair, and the table never holds two
\* links for one (url, owner) pair.
C4_OneLinkPerUrlAndOwner ==
    /\ \A r \in Req :
         (req[r].kind = "shorten" /\ req[r].message = "URL already shortened.")
            => /\ Stored(urls, req[r].out_slug)
               /\ RowOf(urls, req[r].out_slug).original_url = req[r].url
               /\ RowOf(urls, req[r].out_slug).user_uid = req[r].uid
    /\ \A i, j \in RowIds(urls) :
         (urls[i].original_url = urls[j].original_url
            /\ urls[i].user_uid = urls[j].user_uid) => i = j

\* C5: an Enter of a slug that is not stored ends with 404 and no content; an
\* Enter is answered with the first interstitial only when the slug is stored
\* at the lookup; either way the table is left unchanged.
C5_EnterUnknownIsNotFound ==
    [][\A r \in Req :
         Starts(r, "enter")
            => /\ req'[r].pc = "done"
               /\ urls' = urls
               /\ IF Stored(urls, req'[r].slug)
                  THEN req'[r].status = 200
                       /\ req'[r].content = <<"ad_page_1", req'[r].slug>>
                  ELSE req'[r].status = 404 /\ req'[r].content = <<>>
      ]_vars

C5_Witness ==
    \E r, q \in Req :
        /\ req[r].kind = "enter" /\ req[r].status = 404 /\ ~Stored(urls, req[r].slug)
        /\ req[q].kind = "enter" /\ req[q].status = 200 /\ req[q].slug = "c"

\* C6: an Advance ends with 200 and the second interstitial for its slug,
\* whether or not the slug is stored, and leaves the table, the write lock and
\* the pending transaction unchanged.
C6_AdvanceAlwaysRenders ==
    [][\A r \in Req :
         Starts(r, "advance")
            => /\ req'[r].pc = "done"
               /\ req'[r].status = 200
               /\ req'[r].content = <<"ad_page_2", req'[r].slug>>
               /\ urls' = urls /\ writer' = writer /\ txn' = txn
      ]_vars

C6_Witness ==
    \E r, q \in Req :
        /\ req[r].kind = "advance" /\ req[r].status = 200 /\ ~Stored(urls, req[r].slug)
        /\ req[q].kind = "advance" /\ req[q].status = 200 /\ Stored(urls, req[q].slug)

\* the views of user o's links among the first n rows, added row by row
RECURSIVE UserViews(_, _, _)
UserViews(t, o, n) ==
    IF n = 0 THEN 0
    ELSE UserViews(t, o, n - 1) + (IF t[n].user_uid = o THEN t[n].views ELSE 0)

C8_ResolveIgnoresStage ==
    [][\A r \in Req :
         /\ (Starts(r, "resolve") /\ Stored(urls, req'[r].slug) /\ ~Visited(req'[r].slug))
              => /\ req'[r].pc = "resolve_update"
                 /\ req'[r].result = UrlOf(urls, req'[r].slug)
         /\ (Starts(r, "resolve") /\ Stored(urls, req'[r].slug) /\ Visited(req'[r].slug))
              => /\ req'[r].pc = "resolve_update"
                 /\ req'[r].result = UrlOf(urls, req'[r].slug)
         /\ req[r].pc = "resolve_return" /\ req'[r] # req[r]
              => /\ req'[r].status = 302
                 /\ req'[r].location = req[r].result
                 /\ ViewsOf(urls, req[r].slug) > BaseViews(req[r].slug)
      ]_vars

\* a Resolve of "a" redirected with nothing else ever requested for "a", and a
\* Resolve of "b" redirected after an Enter of "b"
C8_Witness ==
    \E r, q, e \in Req :
        /\ req[r].kind = "resolve" /\ req[r].slug = "a" /\ req[r].status = 302
        /\ ~Visited("a")
        /\ ViewsOf(urls, "a") = 8
        /\ req[e].kind = "enter" /\ req[e].slug = "b" /\ req[e].status = 200
        /\ req[q].kind = "resolve" /\ req[q].slug = "b" /\ req[q].status = 302
        /\ e < q

UniqueSlugs(t) == \A i, j \in RowIds(t) : t[i].slug = t[j].slug => i = j

\* C9: no two rows of the table share a slug; and a shorten request whose
\* generated slug is already stored ends with 500 in that step, with the
\* table, the write lock and the pending transaction unchanged (no row, no
\* second attempt).
C9_SlugsUniqueCollisionFails ==
    /\ [](UniqueSlugs(urls) /\ UniqueSlugs(txn))
    /\ [][\A r \in Req :
            (req[r].pc = "shorten_insert" /\ req'[r] # req[r] /\ Stored(urls, req'[r].slug))
               => /\ req'[r].pc = "done"
                  /\ req'[r].status = 500
                  /\ req'[r].success = FALSE
                  /\ req'[r].out_slug = NULL
                  /\ urls' = urls /\ writer' = writer /\ txn' = txn
         ]_vars

\* a shorten request that drew the stored slug "c" failed; "c" is still the
\* link the earlier request created
C9_Witness ==
    \E r, q \in Req :
        /\ req[q].kind = "shorten" /\ req[q].status = 200 /\ req[q].out_slug = "c"
        /\ req[q].message = NULL
        /\ req[r].kind = "shorten" /\ req[r].status = 500 /\ req[r].slug = "c"
        /\ Stored(urls, "c")
        /\ RowOf(urls, "c").original_url = req[q].url
        /\ RowOf(urls, "c").user_uid = req[q].uid
        /\ Len(urls) = 3

\* C10: no step removes a row or changes its slug, original_url or owner, or
\* lowers its views; and a Resolve received after an Enter or a Resolve of the
\* same slug succeeded (slots are taken in order of arrival) is never answered
\* 404: it goes on to redirect to the same URL.
C10_LinksPersist ==
    /\ [][\A i \in RowIds(urls) :
            /\ i \in RowIds(urls')
            /\ urls'[i].slug = urls[i].slug
            /\ urls'[i].original_url = urls[i].original_url
            /\ urls'[i].user_uid = urls[i].user_uid
            /\ urls'[i].views >= urls[i].views
         ]_vars
    /\ [](\A q, r \in Req :
            (/\ q < r
             /\ req[q].kind \in {"enter", "resolve"}
             /\ req[q].result # NULL
             /\ req[r].kind = "resolve"
             /\ req[r].slug = req[q].slug)
               => /\ req[r].status # 404
                  /\ req[r].result = req[q].result
                  /\ (req[r].pc = "done" => req[r].status = 302
                                            /\ req[r].location = req[q].result))

\* an Enter and a Resolve of "a" succeeded, and the Resolve of "a" received
\* after them redirected to the same URL
C10_Witness ==
    /\ req[1].kind = "enter" /\ req[1].slug = "a" /\ req[1].status = 200
    /\ req[2].kind = "resolve" /\ req[2].slug = "a" /\ req[2].status = 302
    /\ req[3].kind = "resolve" /\ req[3].slug = "a" /\ req[3].status = 302
    /\ req[3].location = "https://example.com"
    /\ ViewsOf(urls, "a") = 9

====
